---- MODULE Spec2Model ----
(***************************************************************************)
(* The Morse timing decoder of src/src/morse_decoder.rs: a 128-slot ring   *)
(* of (duration, level) transition records, the edge-triggered recorder    *)
(* tick, reset, the threshold classifier decode and the duration table     *)
(* display.                                                                *)
(*                                                                         *)
(* Time.  SystemTime has a finer resolution than the millisecond that tick *)
(* stores, so a clock reading is a natural number of clock units, with     *)
(* Resolution units to the millisecond; as_millis truncates.               *)
(*                                                                         *)
(* Width.  TLC's integers are 32 bits wide, so the u64 of the source is    *)
(* modelled 30 bits wide: U64_MAX stands for u64::MAX and AsU64 is the     *)
(* `as u64` cast.  Every clock reading of the model is far below U64_MAX   *)
(* milliseconds, as every difference of two readings of a real clock is    *)
(* far below u64::MAX milliseconds.                                        *)
(***************************************************************************)
EXTENDS Integers, Sequences, FiniteSets, TLC

\* ------------------------------------------------------------ constants

LENGTH == 128

U64_MAX == 1073741823

\* DecoderSettings::default()
DEFAULT_DIT_DAH == 300
DEFAULT_LETTER == 500
DEFAULT_LETTER_WORD == 2000

DefaultSettings ==
    [dit_dah |-> DEFAULT_DIT_DAH, letter |-> DEFAULT_LETTER,
     letter_word |-> DEFAULT_LETTER_WORD]

\* --------------------------------------------------------------- bounds

\* Clock units per millisecond.
Resolution == 2

\* Spec: the clock readings are 0..MaxTime (clock units).
MaxTime == 8

\* Spec: at most MaxTicks transitions are recorded between two resets.
MaxTicks == 3

\* Spec: decode's thresholds are drawn from 1..MaxThreshold.
MaxThreshold == 2

\* SpecLong: at most MaxLongTicks readings of the clock after construction.
MaxLongTicks == 131

\* ---------------------------------------------------------------- state

VARIABLES
    ring,       \* MorseDecoder.ring : slot 0..127 -> <<duration, on>>
    index,      \* MorseDecoder.index
    last_time,  \* MorseDecoder.last_time (clock units)
    last_on,    \* MorseDecoder.last_on
    panicked,   \* TRUE once a call has panicked (the unwrap in tick)
    ret,        \* the last call: its operation, what it was given and
                \* what it returned
    hist        \* history: the <<elapsed ms, level>> of every transition
                \* tick was given since construction or the last reset

decoder == <<ring, index, last_time, last_on>>

vars == <<ring, index, last_time, last_on, panicked, ret, hist>>

\* ---------------------------------------------------------- conversions

\* Duration::as_millis: whole milliseconds of a span of clock units.
as_millis(d) == d \div Resolution

\* `x as u64`
AsU64(x) == x % (U64_MAX + 1)

\* a..b (half-open) and a..=b as the sequences a Rust for loop visits.
Range(a, b) == [k \in 1..(IF b > a THEN b - a ELSE 0) |-> a + k - 1]

RangeInclusive(a, b) == Range(a, b + 1)

\* Iterator::chain
Chain(s, t) == s \o t

\* The concatenation ss[lo] \o ... \o ss[hi] of a sequence of sequences: what a
\* loop over ss that appends each element's items in turn builds.
RECURSIVE FlattenRange(_, _, _)
FlattenRange(ss, lo, hi) ==
    IF lo > hi THEN <<>>
    ELSE IF lo = hi THEN ss[lo]
    ELSE LET mid == (lo + hi) \div 2
         IN  FlattenRange(ss, lo, mid) \o FlattenRange(ss, mid + 1, hi)

Flatten(ss) == FlattenRange(ss, 1, Len(ss))

\* -------------------------------------------------------------- decoder

\* The unwritten slot (u64::MAX, false).
Sentinel == <<U64_MAX, FALSE>>

\* MorseDecoder::new() at clock reading now.
new(now) ==
    /\ ring = [i \in 0..(LENGTH - 1) |-> Sentinel]
    /\ index = 0
    /\ last_time = now
    /\ last_on = FALSE

\* Variant of NextSlot: wraps to slot 1, as if slot 0 were never a record's.
NextSlot_skip0(idx) == IF idx + 1 = LENGTH THEN 1 ELSE idx + 1

\* Variant of NextSlot: the index is not wrapped.
NextSlot_nowrap(idx) == idx + 1

\* Variant of NextSlot: steps backwards.
NextSlot_back(idx) == (idx + LENGTH - 1) % LENGTH

\* (self.index + 1) % Self::LENGTH: the slot tick writes next.
NextSlot(idx) == (idx + 1) % LENGTH

\* Variant of tick: last_time is set on every call, level change or not.
tick_restart(on, now) ==
    IF last_on # on
    THEN IF now < last_time
         THEN /\ index' = NextSlot(index)
              /\ panicked' = TRUE
              /\ UNCHANGED <<ring, last_time, last_on>>
         ELSE /\ index' = NextSlot(index)
              /\ ring' = [ring EXCEPT ![NextSlot(index)] =
                              <<AsU64(as_millis(now - last_time)), on>>]
              /\ last_on' = on
              /\ last_time' = now
              /\ UNCHANGED panicked
    ELSE /\ last_time' = now
         /\ UNCHANGED <<ring, index, last_on, panicked>>

\* Variant of tick: the record holds the level before the change.
tick_level_before(on, now) ==
    IF last_on # on
    THEN IF now < last_time
         THEN /\ index' = NextSlot(index)
              /\ panicked' = TRUE
              /\ UNCHANGED <<ring, last_time, last_on>>
         ELSE /\ index' = NextSlot(index)
              /\ ring' = [ring EXCEPT ![NextSlot(index)] =
                             <<AsU64(as_millis(now - last_time)), last_on>>]
              /\ last_on' = on
              /\ last_time' = now
              /\ UNCHANGED panicked
    ELSE UNCHANGED <<ring, index, last_time, last_on, panicked>>

\* Variant of tick: a same-level tick moves last_time on to a later reading.
tick_latest(on, now) ==
    IF last_on # on
    THEN IF now < last_time
         THEN /\ index' = NextSlot(index)
              /\ panicked' = TRUE
              /\ UNCHANGED <<ring, last_time, last_on>>
         ELSE /\ index' = NextSlot(index)
              /\ ring' = [ring EXCEPT ![NextSlot(index)] =
                             <<AsU64(as_millis(now - last_time)), on>>]
              /\ last_on' = on
              /\ last_time' = now
              /\ UNCHANGED panicked
    ELSE /\ last_time' = IF now > last_time THEN now ELSE last_time
         /\ UNCHANGED <<ring, index, last_on, panicked>>

\* MorseDecoder::tick(on), SystemTime::now() reading now.  duration_since is
\* Err when now is earlier than last_time and unwrap then panics, after line
\* 100 has advanced the index and before the slot is written.
tick(on, now) ==
    IF last_on # on
    THEN IF now < last_time
         THEN /\ index' = NextSlot(index)
              /\ panicked' = TRUE
              /\ UNCHANGED <<ring, last_time, last_on>>
         ELSE /\ index' = NextSlot(index)
              /\ ring' = [ring EXCEPT ![NextSlot(index)] =
                              <<AsU64(as_millis(now - last_time)), on>>]
              /\ last_on' = on
              /\ last_time' = now
              /\ UNCHANGED panicked
    ELSE UNCHANGED <<ring, index, last_time, last_on, panicked>>

\* Variant of reset: last_on is left as it was.
reset_keep_level(now) ==
    /\ ring' = [i \in 0..(LENGTH - 1) |-> Sentinel]
    /\ index' = 0
    /\ last_time' = now
    /\ UNCHANGED <<last_on, panicked>>

\* Variant of reset: the ring is not filled with the sentinel.
reset_no_fill(now) ==
    /\ index' = 0
    /\ last_time' = now
    /\ last_on' = FALSE
    /\ UNCHANGED <<ring, panicked>>

\* MorseDecoder::reset(), SystemTime::now() reading now.
reset(now) ==
    /\ ring' = [i \in 0..(LENGTH - 1) |-> Sentinel]
    /\ index' = 0
    /\ last_time' = now
    /\ last_on' = FALSE
    /\ UNCHANGED panicked

\* The slots decode's for loop visits, in order.
DecodeOrder(idx) ==
    Chain(Range((idx + 1) % LENGTH, LENGTH), RangeInclusive(0, idx))

\* Variant of DecodeSlot: a gap is compared with letter_word first.
DecodeSlot_word_first(slot, settings) ==
    IF slot[1] = U64_MAX THEN <<>>
    ELSE IF slot[2]
         THEN IF slot[1] >= settings.letter_word THEN <<"Long">>
              ELSE IF slot[1] >= settings.letter THEN <<"Short">>
              ELSE <<>>
         ELSE IF slot[1] < settings.dit_dah THEN <<"Dit">> ELSE <<"Dah">>

\* Variant of DecodeSlot: a gap of exactly letter pushes nothing.
DecodeSlot_letter_le(slot, settings) ==
    IF slot[1] = U64_MAX THEN <<>>
    ELSE IF slot[2]
         THEN IF slot[1] <= settings.letter THEN <<>>
              ELSE IF slot[1] < settings.letter_word THEN <<"Short">>
              ELSE <<"Long">>
         ELSE IF slot[1] < settings.dit_dah THEN <<"Dit">>
              ELSE <<"Dah">>

\* Variant of DecodeSlot: a mark of exactly dit_dah is a Dit.
DecodeSlot_dit_le(slot, settings) ==
    IF slot[1] = U64_MAX THEN <<>>
    ELSE IF slot[2]
         THEN IF slot[1] < settings.letter THEN <<>>
              ELSE IF slot[1] < settings.letter_word THEN <<"Short">>
              ELSE <<"Long">>
         ELSE IF slot[1] <= settings.dit_dah THEN <<"Dit">>
              ELSE <<"Dah">>

\* The body of decode's loop for one slot: the codes it pushes.
DecodeSlot(slot, settings) ==
    IF slot[1] = U64_MAX THEN <<>>
    ELSE IF slot[2]
         THEN IF slot[1] < settings.letter THEN <<>>
              ELSE IF slot[1] < settings.letter_word THEN <<"Short">>
              ELSE <<"Long">>
         ELSE IF slot[1] < settings.dit_dah THEN <<"Dit">>
              ELSE <<"Dah">>

\* decode's loop over the slots of order: the codes pushed, in order.
DecodeLoop(r, order, settings) ==
    Flatten([k \in 1..Len(order) |-> DecodeSlot(r[order[k]], settings)])

\* MorseDecoder::decode(&settings) of the ring r with write index idx.
decodeOf(r, idx, settings) == DecodeLoop(r, DecodeOrder(idx), settings)

decode(settings) == decodeOf(ring, index, settings)

\* Variant of CodeChar: the arm of Short yields None, so filter_map drops it.
CodeChar_drop(code) ==
    CASE code = "Dit" -> <<".">>
      [] code = "Dah" -> <<"-">>
      [] code = "Short" -> <<>>
      [] code = "Long" -> <<"\n">>

\* Variant of CodeChar: Dit and Dah exchanged.
CodeChar_swapped(code) ==
    CASE code = "Dit" -> <<"-">>
      [] code = "Dah" -> <<".">>
      [] code = "Short" -> <<" ">>
      [] code = "Long" -> <<"\n">>

\* The closure of display_code_string's filter_map: Some(c) is <<c>>.
CodeChar(code) ==
    CASE code = "Dit" -> <<".">>
      [] code = "Dah" -> <<"-">>
      [] code = "Short" -> <<" ">>
      [] code = "Long" -> <<"\n">>

\* Code::display_code_string
display_code_string(code_string) ==
    Flatten([k \in 1..Len(code_string) |-> CodeChar(code_string[k])])

\* -------------------------------------------------------------- display

\* ring.iter().filter_map(...): the durations of the written slots whose
\* level is on, in slot order.
FilterTimes(r, on) ==
    Flatten([k \in 1..LENGTH |->
                IF r[k - 1][1] # U64_MAX /\ r[k - 1][2] = on
                THEN <<r[k - 1][1]>> ELSE <<>>])

\* Vec::sort: the ascending, stable arrangement of s.  s[i] goes to the place
\* after the elements that are smaller, or equal and earlier.
Sort(s) ==
    LET n == Len(s)
        place == [i \in 1..n |->
                    1 + Cardinality({j \in 1..n :
                            s[j] < s[i] \/ (s[j] = s[i] /\ j < i)})]
        from == [k \in 1..n |-> CHOOSE i \in 1..n : place[i] = k]
    IN  [k \in 1..n |-> s[from[k]]]

\* Variant of Reverse: the order is left ascending.
Reverse_none(s) == s

\* Vec::reverse
Reverse(s) == [k \in 1..Len(s) |-> s[Len(s) + 1 - k]]

Digit(n) ==
    CASE n = 0 -> "0" [] n = 1 -> "1" [] n = 2 -> "2" [] n = 3 -> "3"
      [] n = 4 -> "4" [] n = 5 -> "5" [] n = 6 -> "6" [] n = 7 -> "7"
      [] n = 8 -> "8" [] n = 9 -> "9"

RECURSIVE Decimal(_)
Decimal(n) == IF n < 10 THEN <<Digit(n)>> ELSE Decimal(n \div 10) \o <<Digit(n % 10)>>

\* format!("{:05}", n): zero-padded to at least five characters.
Pad05(n) ==
    LET d == Decimal(n)
    IN  [k \in 1..(IF Len(d) < 5 THEN 5 - Len(d) ELSE 0) |-> "0"] \o d

Header ==
    <<"D", "u", "r", "a", "t", "i", "o", "n", "s", " ", "(", "m", "s", ")", "\n",
      "M", "a", "r", "k", "s", " ", "G", "a", "p", "s", "\n",
      "-", "-", "-", "-", "-", " ", "-", "-", "-", "-", "-">>

\* for i in 0..marks.min(gaps): "\n{:05} {:05}"
BothRows(mark_times, gap_times, n) ==
    Flatten([i \in 1..n |->
                <<"\n">> \o Pad05(mark_times[i]) \o <<" ">> \o Pad05(gap_times[i])])

\* for i in gaps..marks: "\n{:05}"
MarkRows(mark_times, gaps, marks) ==
    Flatten([k \in 1..(IF marks > gaps THEN marks - gaps ELSE 0) |->
                <<"\n">> \o Pad05(mark_times[gaps + k])])

\* for i in marks..gaps: "\n      {:05}"
GapRows(gap_times, marks, gaps) ==
    Flatten([k \in 1..(IF gaps > marks THEN gaps - marks ELSE 0) |->
                <<"\n", " ", " ", " ", " ", " ", " ">> \o Pad05(gap_times[marks + k])])

Min(a, b) == IF a < b THEN a ELSE b

\* MorseDecoder::display() of the ring r.
displayOf(r) ==
    LET mark_times == Reverse(Sort(FilterTimes(r, FALSE)))
        marks == Len(mark_times)
        gap_times == Reverse(Sort(FilterTimes(r, TRUE)))
        gaps == Len(gap_times)
    IN  Header
        \o BothRows(mark_times, gap_times, Min(marks, gaps))
        \o (IF marks > gaps
            THEN MarkRows(mark_times, gaps, marks)
            ELSE GapRows(gap_times, marks, gaps))

display == displayOf(ring)

\* ---------------------------------------------------------------- calls

\* The transitions tick(on, now) is given, each with the whole milliseconds
\* since the last one: none when the level is unchanged.
Given(on, now) ==
    IF last_on # on THEN <<(<<(now - last_time) \div Resolution, on>>)>> ELSE <<>>

TypeOK ==
    /\ index \in 0..(LENGTH - 1)
    /\ last_on \in BOOLEAN
    /\ panicked \in BOOLEAN

Init ==
    /\ \E now \in 0..MaxTime : new(now)
    /\ panicked = FALSE
    /\ ret = [op |-> "new"]
    /\ hist = <<>>

\* self.decoder.tick(on) while the clock reads now.  ret keeps the level given,
\* whether it was a change, and whether the call before was a tick that saw no
\* change.
Tick(on, now) ==
    /\ ~panicked
    /\ tick(on, now)
    /\ ret' = [op |-> "tick", on |-> on, changed |-> (last_on # on),
               idle |-> (ret.op = "tick" /\ ~ret.changed)]
    /\ hist' = IF now < last_time THEN hist ELSE hist \o Given(on, now)

Reset(now) ==
    /\ ~panicked
    /\ reset(now)
    /\ ret' = [op |-> "reset", dropped |-> Len(hist)]
    /\ hist' = <<>>

\* Variant of Decode: a decode that consumes the log it has read.
Decode_draining(settings) ==
    /\ ~panicked
    /\ \E code_string \in {decode(settings)} :
          ret' = [op |-> "decode", settings |-> settings, value |-> code_string,
                  text |-> display_code_string(code_string)]
    /\ ring' = [i \in 0..(LENGTH - 1) |-> Sentinel]
    /\ UNCHANGED <<index, last_time, last_on, panicked, hist>>

\* Code::display_code_string(self.decoder.decode(&settings)): decode takes
\* &self; ret keeps the codes and the text made of them.
Decode(settings) ==
    /\ ~panicked
    /\ \E code_string \in {decode(settings)} :
          ret' = [op |-> "decode", settings |-> settings, value |-> code_string,
                  text |-> display_code_string(code_string)]
    /\ UNCHANGED <<ring, index, last_time, last_on, panicked, hist>>

\* Variant of Display: a display that rewinds the write index.
Display_rewinding ==
    /\ ~panicked
    /\ ret' = [op |-> "display", value |-> display]
    /\ index' = 0
    /\ UNCHANGED <<ring, last_time, last_on, panicked, hist>>

\* self.decoder.display(): display takes &self.
Display ==
    /\ ~panicked
    /\ ret' = [op |-> "display", value |-> display]
    /\ UNCHANGED <<ring, index, last_time, last_on, panicked, hist>>

\* ------------------------------------------------------------------ Spec
\* Any clock reading in 0..MaxTime at every call, earlier readings included,
\* and any thresholds in 1..MaxThreshold.

Thresholds == 1..MaxThreshold

SettingsSet == [dit_dah : Thresholds, letter : Thresholds, letter_word : Thresholds]

Next ==
    \/ \E on \in BOOLEAN, now \in 0..MaxTime :
          /\ (last_on # on => Len(hist) < MaxTicks)
          /\ Tick(on, now)
    \/ \E now \in 0..MaxTime : Reset(now)
    \/ \E settings \in SettingsSet : Decode(settings)
    \/ Display

Spec == Init /\ [][Next]_vars

\* -------------------------------------------------------------- SpecLong
\* A long session on a monotonic clock polled every MAX_FRAME_DELAY ms: the n-th
\* reading of the clock by a call that records a transition or resets is
\* LongClock(n), so the n-th interval lasts 20 * n ms and the intervals are
\* pairwise different.  decode is given the default settings.  A reset may
\* come at any reading; after one, at most MaxTicks transitions are recorded
\* before the next (Spec is where resets are followed freely).

MAX_FRAME_DELAY == 20

LongClock(n) == MAX_FRAME_DELAY * Resolution * ((n * (n + 1)) \div 2)

\* The number of readings so far.
LongReadings == CHOOSE n \in 0..MaxLongTicks : LongClock(n) = last_time

LongNow == LongClock(LongReadings + 1)

InitLong ==
    /\ new(LongClock(0))
    /\ panicked = FALSE
    /\ ret = [op |-> "new"]
    /\ hist = <<>>

NextLong ==
    \/ \E on \in BOOLEAN :
          /\ LongReadings < MaxLongTicks
          /\ (Len(hist) < LongReadings => Len(hist) < MaxTicks)
          /\ Tick(on, IF last_on # on THEN LongNow ELSE last_time)
    \/ /\ LongReadings < MaxLongTicks
       /\ Reset(LongNow)
    \/ Decode(DefaultSettings)
    \/ Display

SpecLong == InitLong /\ [][NextLong]_vars

\* ---------------------------------------------------------- SpecScenario
\* The end-to-end session: constructed or reset at any reading in 0..MaxTime,
\* then the level changes after the intervals of Scenario (ms), with polls
\* that see no change in between.

Scenario == <<50, 100, 120, 350, 600, 90, 2200>>

ScenarioNow == last_time + Resolution * Scenario[Len(hist) + 1]

NextScenario ==
    \/ \E on \in BOOLEAN :
          /\ (last_on # on => Len(hist) < Len(Scenario))
          /\ Tick(on, IF last_on # on THEN ScenarioNow ELSE last_time)
    \/ \E now \in 0..MaxTime : hist = <<>> /\ last_time <= now /\ Reset(now)
    \/ Decode(DefaultSettings)
    \/ Display

SpecScenario == Init /\ [][NextScenario]_vars

\* -------------------------------------------------------------- SpecSlow
\* A slow signal on a monotonic clock: constructed at reading 0, every call of
\* tick reads the clock one of SlowIntervals (ms) after last_time, so that
\* durations of five and of six decimal digits are recorded.  reset is called
\* on an empty log only, the clock not having moved.

SlowIntervals == {7, 99999, 100000}

NextSlow ==
    \/ \E on \in BOOLEAN, d \in SlowIntervals :
          /\ (last_on # on => Len(hist) < MaxTicks)
          /\ Tick(on, last_time + Resolution * d)
    \/ (hist = <<>> /\ Reset(last_time))
    \/ Decode(DefaultSettings)
    \/ Display

SpecSlow == InitLong /\ [][NextSlow]_vars

\* -------------------------------------------------------------- SpecWrap
\* The long session of SpecLong, decoded with the default settings and with
\* settings under which a gap of one poll interval already is a letter gap, so
\* that the first gap of the log gives a token.  reset is called on an empty
\* log only, the clock not having moved.

ShortGapSettings ==
    [dit_dah |-> DEFAULT_DIT_DAH, letter |-> MAX_FRAME_DELAY,
     letter_word |-> DEFAULT_LETTER_WORD]

NextWrap ==
    \/ \E on \in BOOLEAN :
          /\ LongReadings < MaxLongTicks
          /\ Tick(on, IF last_on # on THEN LongNow ELSE last_time)
    \/ (hist = <<>> /\ Reset(last_time))
    \/ \E settings \in {DefaultSettings, ShortGapSettings} : Decode(settings)
    \/ Display

SpecWrap == InitLong /\ [][NextWrap]_vars

\* --------------------------------------------------------------- claims

\* A slot that holds a record (its duration is not the sentinel's).
Written(slot) == slot[1] # U64_MAX

\* The ring read in circular chronological order, from slot (idx + 1) mod
\* LENGTH round to slot idx, and the records among the slots read.
Chrono(r, idx) == [k \in 1..LENGTH |-> r[(idx + k) % LENGTH]]

Retained(r, idx) == SelectSeq(Chrono(r, idx), Written)

\* The last n elements of s (all of s when it has fewer).
LastN(s, n) == SubSeq(s, IF Len(s) > n THEN Len(s) - n + 1 ELSE 1, Len(s))

\* The codes of one record under the classification the specification states.
Classified(slot, settings) ==
    IF slot[2]
    THEN IF slot[1] < settings.letter THEN <<>>
         ELSE IF slot[1] < settings.letter_word THEN <<"Short">>
         ELSE <<"Long">>
    ELSE IF slot[1] < settings.dit_dah THEN <<"Dit">> ELSE <<"Dah">>

\* The output of a decode that visits the slots DecodeOrder(index) and pushes
\* Codes(slot) for each.
VisitCodes(Codes(_)) ==
    LET order == DecodeOrder(index)
    IN  Flatten([k \in 1..Len(order) |-> Codes(ring[order[k]])])

\* C1: decode processes each retained record exactly once, oldest to newest
\* (from slot (index + 1) mod 128 round to slot index): its output is the
\* codes of the retained records, concatenated in that order.
C1_DecodeOnceChronological ==
    ret.op = "decode" =>
        LET recs == Retained(ring, index)
        IN  ret.value = Flatten([k \in 1..Len(recs) |-> DecodeSlot(recs[k], ret.settings)])

\* C2: a tick that changes the level at a clock reading earlier than
\* last_time completes normally: it records a transition of 0 ms in the slot
\* after the write index and updates index, last_on and last_time.
C2_BackwardTickClamps ==
    [][\A on \in BOOLEAN, now \in 0..MaxTime :
          (on # last_on /\ now < last_time /\ Tick(on, now)) =>
              /\ ~panicked'
              /\ index' = (index + 1) % LENGTH
              /\ ring' = [ring EXCEPT ![(index + 1) % LENGTH] = <<0, on>>]
              /\ last_on' = on
              /\ last_time' = now]_vars

BoundaryOutput(on, at, codes) ==
    VisitCodes(LAMBDA slot :
        IF Written(slot) /\ slot[2] = on /\ slot[1] = at
        THEN codes ELSE DecodeSlot(slot, ret.settings))

\* C4 (as claimed): for any settings, a mark of exactly dit_dah is Dah, a gap
\* of exactly letter is Short (LetterGap) and a gap of exactly letter_word is
\* Long (WordGap).
C4_BoundaryAnySettings ==
    ret.op = "decode" =>
        /\ ret.value = BoundaryOutput(FALSE, ret.settings.dit_dah, <<"Dah">>)
        /\ ret.value = BoundaryOutput(TRUE, ret.settings.letter, <<"Short">>)
        /\ ret.value = BoundaryOutput(TRUE, ret.settings.letter_word, <<"Long">>)

\* C4 (amended): a mark of exactly dit_dah is Dah; a gap of exactly letter is
\* Short when letter < letter_word and Long otherwise; a gap of exactly
\* letter_word is Long when letter <= letter_word and pushes nothing otherwise.
C4_BoundaryOrdered ==
    ret.op = "decode" =>
        /\ ret.value = BoundaryOutput(FALSE, ret.settings.dit_dah, <<"Dah">>)
        /\ ret.value = BoundaryOutput(TRUE, ret.settings.letter,
              IF ret.settings.letter < ret.settings.letter_word
              THEN <<"Short">> ELSE <<"Long">>)
        /\ ret.value = BoundaryOutput(TRUE, ret.settings.letter_word,
              IF ret.settings.letter <= ret.settings.letter_word
              THEN <<"Long">> ELSE <<>>)

C4_Witness ==
    /\ ret.op = "decode"
    /\ ret.settings.letter < ret.settings.letter_word
    /\ Len(hist) = 3
    /\ hist[1][1] = ret.settings.letter
    /\ hist[2][1] = ret.settings.dit_dah
    /\ hist[3][1] = ret.settings.letter_word
    /\ ret.value = <<"Short", "Dah", "Long">>

\* C5: tick(on) with on equal to last_on changes nothing, whatever the clock
\* reads: ring, index, last_on and last_time are unchanged, nothing fails and
\* no transition is recorded.
C5_SameLevelTickNoOp ==
    [][\A on \in BOOLEAN, now \in 0..MaxTime :
          (on = last_on /\ Tick(on, now)) =>
              UNCHANGED <<ring, index, last_time, last_on, panicked, hist>>]_vars

C5_Witness ==
    /\ ret.op = "tick"
    /\ ~ret.changed
    /\ ret.on
    /\ Len(hist) = 3
    /\ ~panicked

\* The number of slots that hold a record.
Records(r) == Cardinality({i \in 0..(LENGTH - 1) : Written(r[i])})

\* C6: after N <= 128 level changes since construction or the last reset, the
\* log holds exactly N records, and read in circular chronological order they
\* are the N transitions given, each with its elapsed milliseconds and level.
C6_LogMatchesTicks ==
    Len(hist) <= LENGTH =>
        /\ Records(ring) = Len(hist)
        /\ Retained(ring, index) = hist

C6_Witness ==
    /\ Len(hist) = LENGTH
    /\ index = 0
    /\ ret.op = "tick"
    /\ ret.changed

\* text holds pat as a run of consecutive characters.
Occurs(pat, text) ==
    \E i \in 1..(Len(text) - Len(pat) + 1) : SubSeq(text, i, i + Len(pat) - 1) = pat

\* C7: after more than 128 transitions since the last reset the log holds
\* exactly the 128 most recent ones in their order, whatever decode and display
\* calls came in between; each new transition replaces the oldest record; and a
\* replaced transition is in no later output: display shows none of the
\* replaced durations, and decode returns the codes of the 128 most recent
\* transitions alone (once each while the write index is not 127, see C1).
C7_OverwriteOldest ==
    Len(hist) > LENGTH =>
        /\ Records(ring) = LENGTH
        /\ Retained(ring, index) = LastN(hist, LENGTH)
        /\ ring[(index + 1) % LENGTH] = hist[Len(hist) - LENGTH + 1]
        /\ ret.op = "display" =>
              \A k \in 1..(Len(hist) - LENGTH) :
                  \/ \E j \in (Len(hist) - LENGTH + 1)..Len(hist) : hist[j][1] = hist[k][1]
                  \/ ~Occurs(Pad05(hist[k][1]), ret.value)
        /\ (ret.op = "decode" /\ index # LENGTH - 1) =>
              ret.value = Flatten([k \in 1..LENGTH |->
                              Classified(LastN(hist, LENGTH)[k], ret.settings)])

C7_Witness ==
    /\ Len(hist) = LENGTH + 1
    /\ ret.op = "display"
    /\ ~Occurs(Pad05(hist[1][1]), ret.value)
    /\ Occurs(Pad05(hist[2][1]), ret.value)

\* C8: after reset, from any state, decode returns the empty sequence for all
\* settings and display returns the three header lines alone; they still do
\* when called, any number of times, before the next transition.
C8_ResetEmpties ==
    /\ ret.op = "reset" =>
          /\ \A settings \in SettingsSet \cup {DefaultSettings} : decode(settings) = <<>>
          /\ display = Header
    /\ (ret.op = "decode" /\ hist = <<>>) => ret.value = <<>>
    /\ (ret.op = "display" /\ hist = <<>>) => ret.value = Header

C8_Witness ==
    /\ ret.op = "reset"
    /\ ret.dropped > LENGTH
    /\ decode(DefaultSettings) = <<>>
    /\ display = Header

\* C9: no call ever fails: tick, reset, decode and display complete normally
\* from every reachable state and for every input.
C9_NeverFails == ~panicked

\* The transitions of the end-to-end scenario.
ScenarioHist ==
    [k \in 1..Len(Scenario) |-> <<Scenario[k], k % 2 = 1>>]

\* C10: with the default settings, after the level changes ON, OFF, ON, OFF,
\* ON, OFF, ON at 50, 100, 120, 350, 600, 90 and 2200 ms, decode returns Dit,
\* Dah, Short (LetterGap), Dit, Long (WordGap), whose text is ".- .\n".
C10_Scenario ==
    (ret.op = "decode" /\ ret.settings = DefaultSettings /\ hist = ScenarioHist) =>
        /\ ret.value = <<"Dit", "Dah", "Short", "Dit", "Long">>
        /\ display_code_string(ret.value) = <<".", "-", " ", ".", "\n">>

C10_Witness ==
    /\ ret.op = "decode"
    /\ ret.settings = DefaultSettings
    /\ hist = ScenarioHist
    /\ Len(ret.value) = 5

\* ------------------------------------------------- reading display's text

\* The lines of text: the runs of characters between its line feeds.
Lines(text) ==
    LET nl == {i \in 1..Len(text) : text[i] = "\n"}
        before == [p \in nl |-> Cardinality({q \in nl : q < p})]
        at == [k \in 1..Cardinality(nl) |-> CHOOSE p \in nl : before[p] = k - 1]
        cut == <<0>> \o at \o <<Len(text) + 1>>
    IN  [k \in 1..(Len(cut) - 1) |-> SubSeq(text, cut[k] + 1, cut[k + 1] - 1)]

\* The data rows: the lines after the three header lines.
DataRows(text) == LET l == Lines(text) IN SubSeq(l, 4, Len(l))

DigitValue(c) ==
    CASE c = "0" -> 0 [] c = "1" -> 1 [] c = "2" -> 2 [] c = "3" -> 3
      [] c = "4" -> 4 [] c = "5" -> 5 [] c = "6" -> 6 [] c = "7" -> 7
      [] c = "8" -> 8 [] c = "9" -> 9

IsDigit(c) == c \in {"0", "1", "2", "3", "4", "5", "6", "7", "8", "9"}

\* The number a run of decimal digits writes.
RECURSIVE Number(_)
Number(s) ==
    IF s = <<>> THEN 0
    ELSE 10 * Number(SubSeq(s, 1, Len(s) - 1)) + DigitValue(s[Len(s)])

\* A row shows a mark when it starts with a digit, and a gap when it holds a
\* space: the gap value is what follows the last space, the mark value what
\* precedes the first.
ShowsMark(row) == row # <<>> /\ IsDigit(row[1])

ShowsGap(row) == \E i \in 1..Len(row) : row[i] = " "

GapColumn(row) == 1 + CHOOSE i \in 1..Len(row) :
                          row[i] = " " /\ \A j \in (i + 1)..Len(row) : row[j] # " "

MarkValue(row) ==
    LET end == CHOOSE i \in 1..(Len(row) + 1) :
                   /\ i = Len(row) + 1 \/ row[i] = " "
                   /\ \A j \in 1..(i - 1) : row[j] # " "
    IN  Number(SubSeq(row, 1, end - 1))

GapValue(row) == Number(SubSeq(row, GapColumn(row), Len(row)))

\* The slots of the ring that hold a record of level on.
SlotsOf(on) == {i \in 0..(LENGTH - 1) : Written(ring[i]) /\ ring[i][2] = on}

Max(a, b) == IF a > b THEN a ELSE b

\* C11: display lists every record exactly once.  Its table has max(#marks,
\* #gaps) data rows; rows 1..#marks show a mark and rows 1..#gaps a gap; each
\* column is in non-increasing order; and each column holds every duration as
\* many times as there are records of its kind with that duration.
C11_DisplayColumns ==
    ret.op = "display" =>
        LET rows == DataRows(ret.value)
            marks == Cardinality(SlotsOf(FALSE))
            gaps == Cardinality(SlotsOf(TRUE))
            mark == [n \in 1..marks |-> MarkValue(rows[n])]
            gap == [n \in 1..gaps |-> GapValue(rows[n])]
        IN  /\ Len(rows) = Max(marks, gaps)
            /\ \A n \in 1..Len(rows) :
                  /\ ShowsMark(rows[n]) <=> n <= marks
                  /\ ShowsGap(rows[n]) <=> n <= gaps
            /\ \A n \in 1..(marks - 1) : mark[n] >= mark[n + 1]
            /\ \A n \in 1..(gaps - 1) : gap[n] >= gap[n + 1]
            /\ \A n \in 1..marks :
                  Cardinality({m \in 1..marks : mark[m] = mark[n]})
                      = Cardinality({i \in SlotsOf(FALSE) : ring[i][1] = mark[n]})
            /\ \A n \in 1..gaps :
                  Cardinality({m \in 1..gaps : gap[m] = gap[n]})
                      = Cardinality({i \in SlotsOf(TRUE) : ring[i][1] = gap[n]})

\* A full log on display: 64 rows, the first pairing the longest mark (the
\* last transition but one) with the longest gap (the last transition).
C11_Witness ==
    /\ ret.op = "display"
    /\ Len(hist) = LENGTH + 1
    /\ Len(DataRows(ret.value)) = LENGTH \div 2
    /\ MarkValue(DataRows(ret.value)[1]) = hist[LENGTH][1]
    /\ GapValue(DataRows(ret.value)[1]) = hist[LENGTH + 1][1]

\* C12: decode and display are idempotent.  What the last call returned is
\* what the same call returns now, so a run of decode and display calls with
\* no tick or reset among them returns the same output every time.
C12_Idempotent ==
    /\ ret.op = "decode" => decode(ret.settings) = ret.value
    /\ ret.op = "display" => display = ret.value

C12_Witness ==
    /\ ret.op = "decode"
    /\ Len(hist) = 3
    /\ Len(ret.value) = 3
    /\ decode(ret.settings) = ret.value
    /\ Len(DataRows(display)) = 2

\* C13: decode and display are read-only.  Every step that is a decode call,
\* for any settings, or a display call (the steps after which ret is that
\* call's return) leaves ring, index, last_on and last_time unchanged and fails
\* nothing, so the log after a sequence of tick and reset calls does not depend
\* on the decode and display calls made among them.
C13_ReadOnly ==
    [][ret'.op \in {"decode", "display"} =>
          UNCHANGED <<ring, index, last_on, last_time, panicked>>]_vars

\* A display of a log of three records, which are all still there.
C13_Witness ==
    /\ ret.op = "display"
    /\ Len(hist) = 3
    /\ Retained(ring, index) = hist
    /\ index = 3
    /\ last_on

\* C14: in every reachable state the write index is in 0..127 and the ring
\* holds min(k, 128) records, k being the number of level changes recorded
\* since construction or the last reset; it never holds more than 128.
C14_IndexAndCount ==
    /\ index \in 0..(LENGTH - 1)
    /\ Records(ring) = Min(Len(hist), LENGTH)
    /\ Records(ring) <= LENGTH

\* The 130th transition since construction: the index has wrapped to slot 2
\* and the ring still holds 128 records.
C14_Witness ==
    /\ Len(hist) = LENGTH + 2
    /\ index = 2
    /\ Records(ring) = LENGTH
    /\ ret.op = "tick"

\* The character the specification gives a token.
TokenChar(code) ==
    IF code = "Dit" THEN "."
    ELSE IF code = "Dah" THEN "-"
    ELSE IF code = "Short" THEN " "
    ELSE "\n"

\* C15: the text of a token sequence has exactly one character per token, in
\* the same order: '.' for Dit, '-' for Dah, a space for Short (LetterGap) and
\* a line feed for Long (WordGap).  No token is dropped, so the text is as long
\* as the sequence.
C15_TextProjection ==
    ret.op = "decode" =>
        /\ Len(ret.text) = Len(ret.value)
        /\ \A k \in 1..Len(ret.value) : ret.text[k] = TokenChar(ret.value[k])

\* A text of a full log in which all four tokens occur.
C15_Witness ==
    /\ ret.op = "decode"
    /\ Len(hist) = LENGTH
    /\ Len(ret.text) > LENGTH \div 2
    /\ \A c \in {".", "-", " ", "\n"} : \E k \in 1..Len(ret.text) : ret.text[k] = c
    /\ \A t \in {"Dit", "Dah", "Short", "Long"} :
          \E k \in 1..Len(ret.value) : ret.value[k] = t

\* What C16 states of a tick(on) that reads the clock at now.
TransitionWritten(on, now) ==
    /\ ring' = [ring EXCEPT ![(index + 1) % LENGTH] =
                   <<(IF now > last_time THEN now - last_time ELSE 0) \div Resolution, on>>]
    /\ index' = (index + 1) % LENGTH
    /\ last_on' = on
    /\ last_time' = now
    /\ ~panicked'

\* C16: a tick whose level differs from last_on changes exactly one slot of
\* the ring, the one at (index + 1) mod 128, which becomes <<elapsed ms since
\* last_time, level>>; index becomes that slot's, last_on the level and
\* last_time the clock reading; the other 127 slots are unchanged.
C16_TransitionTick ==
    [][\A on \in BOOLEAN, now \in 0..MaxTime :
          (on # last_on /\ Tick(on, now)) => TransitionWritten(on, now)]_vars

\* C16 for the ticks that read a clock not earlier than last_time: these do
\* what C16 states.
C16_ForwardTick ==
    [][\A on \in BOOLEAN, now \in 0..MaxTime :
          (on # last_on /\ now >= last_time /\ Tick(on, now)) =>
              TransitionWritten(on, now)]_vars

\* C17: the duration stored for a transition is the time from the previous
\* recorded transition (or from construction or the last reset) to it, however
\* many same-level ticks came in between.  last_time is the clock reading of
\* the last recorded transition, construction or reset: a reset and a recorded
\* transition set it to their reading, and a same-level tick, a decode and a
\* display leave it alone, whatever the clock reads; and the duration a
\* transition is recorded with is the whole milliseconds from last_time to
\* its reading.
C17_IntervalNotRestarted ==
    [][/\ \A now \in 0..MaxTime :
             /\ Reset(now) => last_time' = now
             /\ \A on \in BOOLEAN :
                   Tick(on, now) =>
                       IF on = last_on
                       THEN last_time' = last_time /\ ring' = ring
                       ELSE now >= last_time =>
                               /\ last_time' = now
                               /\ ring'[index'] = <<(now - last_time) \div Resolution, on>>
       /\ ret'.op \in {"decode", "display"} => last_time' = last_time]_vars

\* A transition recorded with 2 ms right after a same-level tick, 1 ms after
\* a first transition.
C17_Witness ==
    /\ ret.op = "tick"
    /\ ret.changed
    /\ ret.idle
    /\ Len(hist) = 2
    /\ hist[1][1] = 1
    /\ ring[index] = <<2, FALSE>>
    /\ last_time = 3 * Resolution

\* C18: reset, from any reachable state and whatever the clock reads, sets
\* every slot to the sentinel, index to 0, last_on to false and last_time to
\* the reading, so no earlier record is left for decode or display to show;
\* tick(false) directly after a reset changes nothing, even when the level was
\* on before the reset; and the first transition recorded after a reset is
\* rising, with the whole milliseconds from the reset's reading to its own,
\* and is then the only record of the ring.
C18_ResetRestarts ==
    [][\A now \in 0..MaxTime :
          /\ Reset(now) =>
                /\ ring' = [i \in 0..(LENGTH - 1) |-> Sentinel]
                /\ index' = 0
                /\ last_on' = FALSE
                /\ last_time' = now
                /\ ~panicked'
          /\ (ret.op = "reset" /\ Tick(FALSE, now)) =>
                UNCHANGED <<ring, index, last_on, last_time, panicked, hist>>
          /\ \A on \in BOOLEAN :
                (ret.op = "reset" /\ on # last_on /\ now >= last_time /\ Tick(on, now)) =>
                    /\ on = TRUE
                    /\ index' = 1
                    /\ ring' = [i \in 0..(LENGTH - 1) |->
                                   IF i = 1 THEN <<(now - last_time) \div Resolution, TRUE>>
                                   ELSE Sentinel]]_vars

\* A reset that dropped three records, the level having been on before it.
C18_Witness ==
    /\ ret.op = "reset"
    /\ ret.dropped = 3
    /\ ~last_on
    /\ index = 0
    /\ Records(ring) = 0
    /\ last_time = MaxTime

\* The codes of one record when letter >= letter_word, as C19 states them: a
\* gap below letter gives nothing and any other gap Long; a mark gives Dit
\* below dit_dah and Dah otherwise.
Misordered(slot, settings) ==
    IF slot[2]
    THEN IF slot[1] < settings.letter THEN <<>> ELSE <<"Long">>
    ELSE IF slot[1] < settings.dit_dah THEN <<"Dit">> ELSE <<"Dah">>

\* C19: with letter >= letter_word decode never returns Short (LetterGap):
\* every gap record it visits with a duration below letter pushes nothing and
\* every other gap record pushes Long (WordGap), while marks are classified by
\* dit_dah as ever.
C19_MisorderedThresholds ==
    (ret.op = "decode" /\ ret.settings.letter >= ret.settings.letter_word) =>
        /\ \A k \in 1..Len(ret.value) : ret.value[k] # "Short"
        /\ ret.value = VisitCodes(LAMBDA slot :
                           IF Written(slot) THEN Misordered(slot, ret.settings) ELSE <<>>)

\* letter > letter_word: a gap of letter_word ms gives nothing, a gap of
\* letter ms gives Long.
C19_Witness ==
    /\ ret.op = "decode"
    /\ ret.settings.letter > ret.settings.letter_word
    /\ Len(hist) = 3
    /\ hist[1][1] = ret.settings.letter_word
    /\ hist[3][1] = ret.settings.letter
    /\ Len(ret.value) = 2
    /\ ret.value[2] = "Long"

\* C20: display keeps its two columns aligned for every log and every
\* duration: in every data row that shows a gap, the gap value starts at the
\* same character column, the seventh (after a mark field of 5 characters and
\* one space), also when the mark field is blank and when the mark lasted
\* 100000 ms or more.
C20_ColumnsAligned ==
    ret.op = "display" =>
        \A n \in 1..Len(DataRows(ret.value)) :
            ShowsGap(DataRows(ret.value)[n]) => GapColumn(DataRows(ret.value)[n]) = 5 + 2

\* i is odd.
Odd(i) == i % 2 = 1

\* What C21 states of a state.
Parity ==
    /\ last_on <=> Odd(index)
    /\ \A i \in 0..(LENGTH - 1) : Written(ring[i]) => (ring[i][2] <=> Odd(i))
    /\ LET recs == Retained(ring, index)
       IN  \A k \in 1..(Len(recs) - 1) : recs[k][2] # recs[k + 1][2]
    /\ \A k \in 1..Len(hist) : k > Len(hist) - LENGTH => ring[k % LENGTH] = hist[k]

\* C21: in every reachable state last_on is true exactly when index is odd,
\* and every written slot i holds level = (i is odd); hence the retained
\* records, read in chronological order, alternate between rising and falling,
\* and the k-th transition since the last reset is in slot k mod 128.
C21_ParityInvariant == Parity

\* C21 for the states in which no call has failed: these have the parity
\* C21 states, wrap-around included.
C21_ParityUnfailed == ~panicked => Parity

\* A gap token.
IsGap(code) == code \in {"Short", "Long"}

\* C22: for every reachable state and all settings, the output of decode
\* never holds two adjacent gap tokens (Short or Long next to Short or Long):
\* the tokens of two gap records always have the Dit or Dah of the mark record
\* between them.
C22_NoAdjacentGaps ==
    ret.op = "decode" =>
        \A k \in 1..(Len(ret.value) - 1) :
            ~(IsGap(ret.value[k]) /\ IsGap(ret.value[k + 1]))

\* C22 for the decodes made while the write index is not 127 (where, by C1,
\* the slots are visited once): these return no two adjacent gap tokens.
C22_NoAdjacentGapsOnce ==
    (ret.op = "decode" /\ index # LENGTH - 1) =>
        \A k \in 1..(Len(ret.value) - 1) :
            ~(IsGap(ret.value[k]) /\ IsGap(ret.value[k + 1]))

\* C23: in every reachable state the ring holds at most as many mark records
\* (level false) as gap records (level true), and at least that number minus
\* one; so display never takes its marks > gaps branch and none of its data
\* rows shows a mark without a gap.
C23_MarksWithinGaps ==
    /\ Cardinality(SlotsOf(FALSE)) <= Cardinality(SlotsOf(TRUE))
    /\ Cardinality(SlotsOf(TRUE)) <= Cardinality(SlotsOf(FALSE)) + 1
    /\ ret.op = "display" =>
          \A rows \in {DataRows(ret.value)} :
              \A n \in 1..Len(rows) : ShowsMark(rows[n]) => ShowsGap(rows[n])

\* A display of 127 records, 63 marks and 64 gaps: the last of its 64 rows
\* shows a gap alone.
C23_Witness ==
    /\ ret.op = "display"
    /\ Len(hist) = LENGTH - 1
    /\ Cardinality(SlotsOf(FALSE)) = LENGTH \div 2 - 1
    /\ Cardinality(SlotsOf(TRUE)) = LENGTH \div 2
    /\ ~ShowsMark(DataRows(ret.value)[LENGTH \div 2])
    /\ ShowsGap(DataRows(ret.value)[LENGTH \div 2])

====
